---------------------------- MODULE Spec2Model ----------------------------
(***************************************************************************)
(* git-tree: a wrapper around `git log`.  main() lists the interesting     *)
(* branches (interesting_branches.rs), asks git for their octopus merge    *)
(* bases (merge_bases.rs), derives the include/exclude lists and runs      *)
(* `git log`.  The three git children are the environment: what they write *)
(* to stdout and the status they exit with is chosen by the model.         *)
(*                                                                         *)
(* Byte strings (Vec<u8>, String) are sequences of byte values 0..255.     *)
(* The program is run twice against the same repository: in the second     *)
(* run every child writes the bytes and returns the status it did in the   *)
(* first run.                                                              *)
(***************************************************************************)
EXTENDS Integers, Sequences, FiniteSets, TLC

(***************************************************************************)
(* Bounds of the model.                                                    *)
(***************************************************************************)
\* Lines the git children write to stdout during one run of the program.
MaxLines == 3
\* The same, when the program is run a second time in the same repository.
MaxLinesRerun == 2

(***************************************************************************)
(* Program constants.                                                      *)
(***************************************************************************)
\* b'\n', the delimiter of read_until
NL == 10
\* b'/', the separator searched for in a remote branch
Slash == 47
\* the status `git` uses for "not a git repository" and other fatal errors
GIT_128 == 128

\* b"refs/remotes/"
REFS_REMOTES == <<114, 101, 102, 115, 47, 114, 101, 109, 111, 116, 101, 115, 47>>
\* b"refs/heads/"
REFS_HEADS == <<114, 101, 102, 115, 47, 104, 101, 97, 100, 115, 47>>
\* "^@", appended to every merge base in the `git log` command line
PARENTS_SUFFIX == <<94, 64>>
\* ["merge-base", "-a", "--octopus", "HEAD"]
MERGE_BASE_ARGS ==
    << <<109, 101, 114, 103, 101, 45, 98, 97, 115, 101>>, <<45, 97>>,
       <<45, 45, 111, 99, 116, 111, 112, 117, 115>>, <<72, 69, 65, 68>> >>
\* "log"
ARG_LOG == <<108, 111, 103>>
\* "--not"
ARG_NOT == <<45, 45, 110, 111, 116>>

(***************************************************************************)
(* The environment: what the git children can write and return.            *)
(***************************************************************************)
\* b"refs/tags/": a namespace that is neither local nor remote
REFS_TAGS == <<114, 101, 102, 115, 47, 116, 97, 103, 115, 47>>

\* Names of local branches git may print after refs/heads/:
\*   ""  "a"  "o/a"  "\xFF"
LocalNames == { <<>>, <<97>>, <<111, 47, 97>>, <<255>> }

\* Remote branches git may print after refs/remotes/:
\*   ""  "a"  "o/a"  "b/a"  "o/o/a"  "\xFF/a"
RemoteNames ==
    { <<>>, <<97>>, <<111, 47, 97>>, <<98, 47, 97>>, <<111, 47, 111, 47, 97>>,
      <<255, 47, 97>> }

\* The lines (without the newline) `git branch -a --format=%(refname)` may
\* print: local branches, remote branches, "refs/tags/a" and an empty line.
BranchLines ==
    {REFS_HEADS \o n : n \in LocalNames} \cup {REFS_REMOTES \o n : n \in RemoteNames}
        \cup {REFS_TAGS \o <<97>>, <<>>}

\* The lines (without the newline) `git merge-base` may print:
\*   ""  "c"  "cd"  "\xFF"
BaseLines == { <<>>, <<99>>, <<99, 100>>, <<255>> }

\* Exit statuses of a child: success, failure, and git's 128.
Statuses == {0, 1, GIT_128}

\* The arguments the user passes on the command line: "-p".
UserArgs == { << <<45, 112>> >> }

(***************************************************************************)
(* Library functions the code calls.                                       *)
(***************************************************************************)
Min(S) == CHOOSE x \in S : \A y \in S : x <= y

\* BufRead::read_until(delim, buf) on the stream `out` read up to `pos`: the
\* bytes up to and including the first delimiter, or up to the end of the
\* stream when there is none (empty at end of file).
read_until(out, pos, delim) ==
    LET hits == {i \in (pos + 1)..Len(out) : out[i] = delim}
    IN  IF hits = {} THEN SubSeq(out, pos + 1, Len(out))
        ELSE SubSeq(out, pos + 1, Min(hits))

\* usize::checked_sub(1): None (the empty sequence) on 0, Some(n - 1) otherwise.
checked_sub_1(n) == IF n = 0 THEN <<>> ELSE <<n - 1>>

\* <[u8]>::first_chunk::<N>() == Some(prefix), N being the prefix's length.
first_chunk_is(buf, prefix) ==
    /\ Len(buf) >= Len(prefix)
    /\ SubSeq(buf, 1, Len(prefix)) = prefix

\* <[u8]>::get(from..to): None (the empty sequence) unless from <= to <= len.
get_range(buf, from, to) ==
    IF from <= to /\ to <= Len(buf) THEN <<SubSeq(buf, from + 1, to)>> ELSE <<>>

\* Iterator::position(|&b| b == byte): the 0-based index of the first match.
position(s, byte) ==
    LET hits == {i \in 1..Len(s) : s[i] = byte}
    IN  IF hits = {} THEN <<>> ELSE <<Min(hits) - 1>>

\* <[u8]>::split_at(mid).1
split_at_tail(s, mid) == SubSeq(s, mid + 1, Len(s))

IsCont(b) == b >= 128 /\ b <= 191

\* core::str::from_utf8(s).is_ok(): s is well-formed UTF-8 (Unicode table 3-7).
RECURSIVE from_utf8_ok_at(_, _)
from_utf8_ok_at(s, i) ==
    LET n == Len(s)
        b == s[i]
        c(k) == i + k <= n /\ IsCont(s[i + k])
    IN  IF i > n THEN TRUE
        ELSE IF b <= 127 THEN from_utf8_ok_at(s, i + 1)
        ELSE IF b >= 194 /\ b <= 223 THEN c(1) /\ from_utf8_ok_at(s, i + 2)
        ELSE IF b = 224
            THEN i + 1 <= n /\ s[i + 1] >= 160 /\ s[i + 1] <= 191 /\ c(2)
                 /\ from_utf8_ok_at(s, i + 3)
        ELSE IF (b >= 225 /\ b <= 236) \/ b = 238 \/ b = 239
            THEN c(1) /\ c(2) /\ from_utf8_ok_at(s, i + 3)
        ELSE IF b = 237
            THEN i + 1 <= n /\ s[i + 1] >= 128 /\ s[i + 1] <= 159 /\ c(2)
                 /\ from_utf8_ok_at(s, i + 3)
        ELSE IF b = 240
            THEN i + 1 <= n /\ s[i + 1] >= 144 /\ s[i + 1] <= 191 /\ c(2) /\ c(3)
                 /\ from_utf8_ok_at(s, i + 4)
        ELSE IF b >= 241 /\ b <= 243
            THEN c(1) /\ c(2) /\ c(3) /\ from_utf8_ok_at(s, i + 4)
        ELSE IF b = 244
            THEN i + 1 <= n /\ s[i + 1] >= 128 /\ s[i + 1] <= 143 /\ c(2) /\ c(3)
                 /\ from_utf8_ok_at(s, i + 4)
        ELSE FALSE

from_utf8_ok(s) == from_utf8_ok_at(s, 1)

\* The orders in which a HashSet with the default (randomly seeded) hasher
\* may yield its elements.
IterOrders(S) ==
    {p \in [1..Cardinality(S) -> S] : \A i, j \in 1..Cardinality(S) : i # j => p[i] # p[j]}

(***************************************************************************)
(* State.                                                                  *)
(***************************************************************************)
VARIABLES
    run,            \* 1 or 2: which run of the program this is
    pc,             \* where main() is
    buffer,         \* main's `buffer`, lent to every stage
    rd,             \* bytes of the running child's stdout already read
    eof,            \* the running child has closed its stdout
    quota,          \* lines the children may still write in run 1
    userArgs,       \* args_os().skip(1)
    branchOut,      \* stdout of `git branch`
    branchStatus,   \* its exit status (<<>>: still running)
    mbOut,          \* stdout of `git merge-base`
    mbStatus,       \* its exit status
    logStatus,      \* exit status of `git log`
    locals,         \* interesting_branches: `locals`
    remotes,        \* interesting_branches: `remotes`
    interesting,    \* what interesting_branches returned
    mbArgv,         \* arguments of the `git merge-base` child
    mergeBases,     \* merge_bases: `merge_bases`
    includes,       \* includes_excludes: first result
    excludes,       \* includes_excludes: second result
    logArgv,        \* arguments of the `git log` child
    diag,           \* the panic message this program printed (<<>>: none)
    exitCode,       \* the exit code of this program (<<>>: still running)
    first           \* the results of run 1, kept for comparison

vars == <<run, pc, buffer, rd, eof, quota, userArgs, branchOut, branchStatus, mbOut,
          mbStatus, logStatus, locals, remotes, interesting, mbArgv, mergeBases,
          includes, excludes, logArgv, diag, exitCode, first>>

\* What a stage has not returned yet.
None == [kind |-> "none", list |-> <<>>]

Last(s) == s[Len(s)]

\* The chunk the next read_until returns.  In run 1 the child is free to
\* write any line (with its newline), to write a last line without a newline
\* and close, or to close; in run 2 it writes what it wrote in run 1.
NextChunks(out, lines) ==
    IF run = 2 THEN {read_until(out, rd, NL)}
    ELSE IF eof THEN {<<>>}
    ELSE {<<>>} \cup
         (IF quota > 0
          THEN {l \o <<NL>> : l \in lines} \cup (lines \ {<<>>})
          ELSE {})

\* The status the child exits with: free in run 1, the same in run 2.
NextStatuses(status) == IF run = 2 THEN {status[1]} ELSE Statuses


(***************************************************************************)
(* Panics.  A panic prints its message and ends the process with code 101. *)
(***************************************************************************)
UNWRAP_NONE == <<"called Option::unwrap() on a None value">>
NON_UTF8_BRANCH == <<"non-utf-8 branch">>
NON_UTF8_OUTPUT == <<"non-utf-8 git output">>
BAD_STATUS(st) == <<"git returned unsuccessful status", st>>

Panic(msg) ==
    /\ pc' = "panicked"
    /\ diag' = msg
    /\ exitCode' = <<101>>

(***************************************************************************)
(* interesting_branches                                                    *)
(***************************************************************************)
\* A loop that forgets buffer.clear().
clear_forgotten(buf) == buf

\* buffer.clear()
clear(buf) == <<>>

\* The branch kept with its namespace: buffer.get(..len).
branch_of_unstripped(buf, prefix, len) == get_range(buf, 0, len)

\* The branch read from a line of `len` bytes that starts with `prefix`:
\* buffer.get(prefix.len()..len), None when the range is not in the buffer.
branch_of(buf, prefix, len) == get_range(buf, Len(prefix), len)

\* One turn of the `while let Some(len) = read_until(..).checked_sub(1)` loop,
\* or its end when read_until returns 0.
interesting_branches_loop ==
    /\ pc = "ib_loop"
    /\ \E chunk \in NextChunks(branchOut, BranchLines) :
        LET out   == IF run = 1 THEN branchOut \o chunk ELSE branchOut
            read  == read_until(out, rd, NL)
            buf   == buffer \o read
            len   == checked_sub_1(Len(read))
            rem   == branch_of(buf, REFS_REMOTES, len[1])
            loc   == branch_of(buf, REFS_HEADS, len[1])
        IN  /\ branchOut' = out
            /\ rd' = rd + Len(read)
            /\ eof' = (read = <<>> \/ Last(read) # NL)
            /\ quota' = IF run = 1 /\ chunk # <<>> THEN quota - 1 ELSE quota
            /\ IF len = <<>>
               THEN /\ pc' = "ib_resolve"
                    /\ buffer' = buf
                    /\ UNCHANGED <<locals, remotes, diag, exitCode>>
               ELSE IF first_chunk_is(buf, REFS_REMOTES)
               THEN IF rem = <<>>
                    THEN /\ Panic(UNWRAP_NONE)
                         /\ buffer' = buf
                         /\ UNCHANGED <<locals, remotes>>
                    ELSE /\ remotes' = Append(remotes, rem[1])
                         /\ buffer' = clear(buf)
                         /\ UNCHANGED <<pc, locals, diag, exitCode>>
               ELSE IF first_chunk_is(buf, REFS_HEADS)
               THEN IF loc = <<>>
                    THEN /\ Panic(UNWRAP_NONE)
                         /\ buffer' = buf
                         /\ UNCHANGED <<locals, remotes>>
                    ELSE /\ locals' = locals \cup {loc[1]}
                         /\ buffer' = clear(buf)
                         /\ UNCHANGED <<pc, remotes, diag, exitCode>>
               ELSE /\ buffer' = clear(buf)
                    /\ UNCHANGED <<pc, locals, remotes, diag, exitCode>>
    /\ UNCHANGED <<run, userArgs, branchStatus, mbOut, mbStatus, logStatus, interesting,
                   mbArgv, mergeBases, includes, excludes, logArgv, first>>

\* The name taken after the last '/' of the remote (rposition).
is_interesting_last_slash(remote, locs) ==
    LET hits == {i \in 1..Len(remote) : remote[i] = Slash}
    IN  /\ hits # {}
        /\ split_at_tail(remote, CHOOSE i \in hits : \A j \in hits : j <= i) \in locs

\* `locals.contains(name)`, name being what follows the first '/' of the
\* remote; false (`continue`) for a remote without '/'.
is_interesting(remote, locs) ==
    LET idx == position(remote, Slash)
    IN  /\ idx # <<>>
        /\ split_at_tail(remote, idx[1] + 1) \in locs

\* The remotes pushed by the `for remote in remotes` loop.
interesting_remotes(rems, locs) == SelectSeq(rems, LAMBDA r : is_interesting(r, locs))

\* The locals pushed before the remotes.
interesting_list_locals_first(rems, locs, order) ==
    order \o SelectSeq(rems, LAMBDA r : is_interesting(r, locs))

\* The last local the HashSet yields is not pushed.
interesting_list_short(rems, locs, order) ==
    SelectSeq(rems, LAMBDA r : is_interesting(r, locs))
        \o SubSeq(order, 1, Len(order) - 1)

\* `interesting` after the loop over the remotes and the extend() with the
\* locals, which the HashSet yields in `order`.
interesting_list(rems, locs, order) == interesting_remotes(rems, locs) \o order

\* Only the locals are converted with from_utf8.
non_utf8_branch_locals_only(rems, locs) == \E l \in locs : ~from_utf8_ok(l)

\* Some String::from_utf8(..).expect("non-utf-8 branch") fails: on a remote
\* that is pushed, or on a local.
non_utf8_branch(rems, locs) ==
    \/ \E i \in 1..Len(rems) : is_interesting(rems[i], locs) /\ ~from_utf8_ok(rems[i])
    \/ \E l \in locs : ~from_utf8_ok(l)

\* The rest of interesting_branches, from drop(reader) to the return.  git
\* exits with status st; the code learns it in git.wait(), after the
\* conversions to String.
interesting_branches_finish ==
    /\ pc = "ib_resolve"
    /\ \E order \in IterOrders(locals), st \in NextStatuses(branchStatus) :
        /\ branchStatus' = <<st>>
        /\ IF non_utf8_branch(remotes, locals)
           THEN /\ Panic(NON_UTF8_BRANCH)
                /\ UNCHANGED interesting
           ELSE IF st = GIT_128
           THEN /\ interesting' = [kind |-> "Git128", list |-> <<>>]
                /\ pc' = "ib_ret"
                /\ UNCHANGED <<diag, exitCode>>
           ELSE IF st # 0
           THEN /\ Panic(BAD_STATUS(st))
                /\ UNCHANGED interesting
           ELSE /\ interesting' =
                       [kind |-> "Ok", list |-> interesting_list(remotes, locals, order)]
                /\ pc' = "ib_ret"
                /\ UNCHANGED <<diag, exitCode>>
    /\ UNCHANGED <<run, buffer, rd, eof, quota, userArgs, branchOut, mbOut, mbStatus,
                   logStatus, locals, remotes, mbArgv, mergeBases, includes, excludes,
                   logArgv, first>>

(***************************************************************************)
(* merge_bases                                                             *)
(***************************************************************************)
\* The arguments of the child: the fixed ones, then the interesting branches.
merge_base_argv(branches) == MERGE_BASE_ARGS \o branches

\* main calls merge_bases with what interesting_branches returned; the
\* function starts the child.
merge_bases_spawn ==
    /\ pc = "ib_ret"
    /\ interesting.kind = "Ok"
    /\ mbArgv' = merge_base_argv(interesting.list)
    /\ mergeBases' = <<>>
    /\ rd' = 0
    /\ eof' = FALSE
    /\ pc' = "mb_loop"
    /\ UNCHANGED <<run, buffer, quota, userArgs, branchOut, branchStatus, mbOut, mbStatus,
                   logStatus, locals, remotes, interesting, includes, excludes, logArgv,
                   diag, exitCode, first>>

\* The bytes of a line of `len` bytes that become a merge base:
\* buffer.get(..len).
merge_base_of(buf, len) == get_range(buf, 0, len)

\* One turn of the read loop of merge_bases, or its end.
merge_bases_loop ==
    /\ pc = "mb_loop"
    /\ \E chunk \in NextChunks(mbOut, BaseLines) :
        LET out   == IF run = 1 THEN mbOut \o chunk ELSE mbOut
            read  == read_until(out, rd, NL)
            buf   == buffer \o read
            len   == checked_sub_1(Len(read))
            base  == merge_base_of(buf, len[1])
        IN  /\ mbOut' = out
            /\ rd' = rd + Len(read)
            /\ eof' = (read = <<>> \/ Last(read) # NL)
            /\ quota' = IF run = 1 /\ chunk # <<>> THEN quota - 1 ELSE quota
            /\ IF len = <<>>
               THEN /\ pc' = "mb_wait"
                    /\ buffer' = buf
                    /\ UNCHANGED <<mergeBases, diag, exitCode>>
               ELSE IF base = <<>>
               THEN /\ Panic(UNWRAP_NONE)
                    /\ buffer' = buf
                    /\ UNCHANGED mergeBases
               ELSE IF ~from_utf8_ok(base[1])
               THEN /\ Panic(NON_UTF8_OUTPUT)
                    /\ buffer' = buf
                    /\ UNCHANGED mergeBases
               ELSE /\ mergeBases' = Append(mergeBases, base[1])
                    /\ buffer' = clear(buf)
                    /\ UNCHANGED <<pc, diag, exitCode>>
    /\ UNCHANGED <<run, userArgs, branchOut, branchStatus, mbStatus, logStatus, locals,
                   remotes, interesting, mbArgv, includes, excludes, logArgv, first>>

\* git.wait() and the assert on its status; merge_bases returns.
merge_bases_finish ==
    /\ pc = "mb_wait"
    /\ \E st \in NextStatuses(mbStatus) :
        /\ mbStatus' = <<st>>
        /\ IF st = 0
           THEN /\ pc' = "mb_ret"
                /\ UNCHANGED <<diag, exitCode>>
           ELSE Panic(BAD_STATUS(st))
    /\ UNCHANGED <<run, buffer, rd, eof, quota, userArgs, branchOut, branchStatus, mbOut,
                   logStatus, locals, remotes, interesting, mbArgv, mergeBases, includes,
                   excludes, logArgv, first>>

(***************************************************************************)
(* main                                                                    *)
(***************************************************************************)
\* The Err(Git128) arm of main: the program ends without a message and with
\* an unsuccessful exit code.
main_Git128 ==
    /\ pc = "ib_ret"
    /\ interesting.kind = "Git128"
    /\ exitCode' = <<1>>
    /\ pc' = "exited"
    /\ UNCHANGED <<run, buffer, rd, eof, quota, userArgs, branchOut, branchStatus, mbOut,
                   mbStatus, logStatus, locals, remotes, interesting, mbArgv, mergeBases,
                   includes, excludes, logArgv, diag, first>>

\* includes_excludes(buffer, interesting_branches, &merge_bases): every
\* interesting branch is shown, nothing else is excluded.
includes_excludes ==
    /\ pc = "mb_ret"
    /\ includes' = interesting.list
    /\ excludes' = <<>>
    /\ pc' = "log"
    /\ UNCHANGED <<run, buffer, rd, eof, quota, userArgs, branchOut, branchStatus, mbOut,
                   mbStatus, logStatus, locals, remotes, interesting, mbArgv, mergeBases,
                   logArgv, diag, exitCode, first>>

\* The arguments of the `git log` child.
git_log_argv(user, incl, bases, excl) ==
    <<ARG_LOG>> \o user \o incl \o <<ARG_NOT>>
        \o [i \in 1..Len(bases) |-> bases[i] \o PARENTS_SUFFIX] \o excl

\* The exit code of the program when main returns: main returns (), whatever
\* the status wait() gave.
main_exit_code(st) == 0

\* main runs `git log`, waits for it and returns.
main_git_log ==
    /\ pc = "log"
    /\ logArgv' = git_log_argv(userArgs, includes, mergeBases, excludes)
    /\ \E st \in NextStatuses(logStatus) :
        /\ logStatus' = <<st>>
        /\ exitCode' = <<main_exit_code(st)>>
    /\ pc' = "exited"
    /\ UNCHANGED <<run, buffer, rd, eof, quota, userArgs, branchOut, branchStatus, mbOut,
                   mbStatus, locals, remotes, interesting, mbArgv, mergeBases, includes,
                   excludes, diag, first>>

(***************************************************************************)
(* The two runs.                                                           *)
(***************************************************************************)
NoRun == [pc |-> "none", interesting |-> None, mbArgv |-> <<>>, mergeBases |-> <<>>,
          logArgv |-> <<>>, diag |-> <<>>, exitCode |-> <<>>]

\* The program is started again in the same repository with the same
\* arguments: the children will write what they wrote in run 1.
Rerun ==
    /\ run = 1
    /\ pc \in {"exited", "panicked"}
    /\ first' = [pc |-> pc, interesting |-> interesting, mbArgv |-> mbArgv,
                 mergeBases |-> mergeBases, logArgv |-> logArgv, diag |-> diag,
                 exitCode |-> exitCode]
    /\ run' = 2
    /\ pc' = "ib_loop"
    /\ buffer' = <<>>
    /\ rd' = 0
    /\ eof' = FALSE
    /\ locals' = {}
    /\ remotes' = <<>>
    /\ interesting' = None
    /\ mbArgv' = <<>>
    /\ mergeBases' = <<>>
    /\ includes' = <<>>
    /\ excludes' = <<>>
    /\ logArgv' = <<>>
    /\ diag' = <<>>
    /\ exitCode' = <<>>
    /\ UNCHANGED <<quota, userArgs, branchOut, branchStatus, mbOut, mbStatus, logStatus>>

\* main has made the buffer and interesting_branches has started `git branch`.
InitWith(lines) ==
    /\ quota = lines
    /\ run = 1
    /\ pc = "ib_loop"
    /\ buffer = <<>>
    /\ rd = 0
    /\ eof = FALSE
    /\ userArgs \in UserArgs
    /\ branchOut = <<>>
    /\ branchStatus = <<>>
    /\ mbOut = <<>>
    /\ mbStatus = <<>>
    /\ logStatus = <<>>
    /\ locals = {}
    /\ remotes = <<>>
    /\ interesting = None
    /\ mbArgv = <<>>
    /\ mergeBases = <<>>
    /\ includes = <<>>
    /\ excludes = <<>>
    /\ logArgv = <<>>
    /\ diag = <<>>
    /\ exitCode = <<>>
    /\ first = NoRun

Init == InitWith(MaxLines)

InitRerun == InitWith(MaxLinesRerun)

\* One run of the program.
Next ==
    \/ interesting_branches_loop
    \/ interesting_branches_finish
    \/ main_Git128
    \/ merge_bases_spawn
    \/ merge_bases_loop
    \/ merge_bases_finish
    \/ includes_excludes
    \/ main_git_log

Spec == Init /\ [][Next]_vars

\* Two runs of the program in the same repository.
NextRerun ==
    \/ Next
    \/ Rerun

SpecRerun == InitRerun /\ [][NextRerun]_vars


(***************************************************************************)
(* What the children wrote, seen line by line.                             *)
(***************************************************************************)
Range(f) == {f[i] : i \in DOMAIN f}

Count(list, x) == Cardinality({i \in DOMAIN list : list[i] = x})

\* The stream cut after every newline; a last piece without a newline is a
\* chunk of its own.
RECURSIVE Chunks(_)
Chunks(out) ==
    IF out = <<>> THEN <<>>
    ELSE LET nls == {i \in 1..Len(out) : out[i] = NL}
             cut == IF nls = {} THEN Len(out) ELSE Min(nls)
         IN  <<SubSeq(out, 1, cut)>> \o Chunks(SubSeq(out, cut + 1, Len(out)))

\* Every line of the stream ends with a newline.
Complete(out) == out = <<>> \/ Last(out) = NL

\* The text of a line: the chunk without its trailing newline.
TextOf(chunk) == IF Last(chunk) = NL THEN SubSeq(chunk, 1, Len(chunk) - 1) ELSE chunk

TextLines(out) == LET cs == Chunks(out) IN [i \in 1..Len(cs) |-> TextOf(cs[i])]

\* The line as the read loops take it: the chunk without its last byte,
\* which is the newline when the line has one.
TakenOf(chunk) == SubSeq(chunk, 1, Len(chunk) - 1)

TakenLines(out) == LET cs == Chunks(out) IN [i \in 1..Len(cs) |-> TakenOf(cs[i])]

HasPrefix(line, prefix) ==
    Len(line) >= Len(prefix) /\ \A i \in 1..Len(prefix) : line[i] = prefix[i]

Strip(line, prefix) == SubSeq(line, Len(prefix) + 1, Len(line))

\* The lines of a namespace, in order, without the prefix.
InNamespace(lines, prefix) ==
    LET sel == SelectSeq(lines, LAMBDA l : HasPrefix(l, prefix))
    IN  [i \in 1..Len(sel) |-> Strip(sel[i], prefix)]

\* The remote has a '/' and what follows its first '/' is one of the names.
TracksOneOf(remote, names) ==
    \E j \in 1..Len(remote) :
        /\ remote[j] = Slash
        /\ \A k \in 1..(j - 1) : remote[k] # Slash
        /\ SubSeq(remote, j + 1, Len(remote)) \in names

\* The local names and the remote references of the listing, from the text
\* of its lines and from the lines as taken by the read loop.
TextLocals == Range(InNamespace(TextLines(branchOut), REFS_HEADS))
TextRemotes == InNamespace(TextLines(branchOut), REFS_REMOTES)
TakenLocals == Range(InNamespace(TakenLines(branchOut), REFS_HEADS))
TakenRemotes == InNamespace(TakenLines(branchOut), REFS_REMOTES)

\* interesting_branches has just returned a list.
ListReturned == pc = "ib_ret" /\ interesting.kind = "Ok"

\* interesting_branches is over: it returned or panicked.
ListerOver == pc \notin {"ib_loop", "ib_resolve"}

(***************************************************************************)
(* C1.  As stated: for a listing of newline-terminated lines, the returned *)
(* list contains every local branch exactly once, contains every remote    *)
(* reference that has a '/' followed (after the first '/') by the name of  *)
(* a local branch, and contains nothing but locals and such remotes.       *)
(***************************************************************************)
C1_AsStated ==
    ListReturned /\ Complete(branchOut) =>
        LET L == TextLocals
            R == TextRemotes
            list == interesting.list
        IN  /\ \A n \in L : Count(list, n) = 1
            /\ \A i \in DOMAIN R : TracksOneOf(R[i], L) => R[i] \in Range(list)
            /\ \A e \in Range(list) :
                  e \in L \/ (e \in Range(R) /\ TracksOneOf(e, L))

(***************************************************************************)
(* C1, amended.  The entries are names without the namespace prefix, so a  *)
(* local and a remote can be the same entry: a string occurs in the        *)
(* returned list once if it is a local name, plus once for every remote    *)
(* line with that text that has a '/' followed by a local name.  Nothing   *)
(* else is in the list: not a remote without '/', not a line of another    *)
(* namespace.  (Lines are taken as the read loop takes them.)              *)
(***************************************************************************)
C1_Amended ==
    ListReturned =>
        LET L == TakenLocals
            R == TakenRemotes
            list == interesting.list
        IN  \A s \in L \cup Range(R) \cup Range(list) :
                Count(list, s) =
                    (IF s \in L THEN 1 ELSE 0)
                    + (IF TracksOneOf(s, L) THEN Count(R, s) ELSE 0)

\* A local branch whose name is also the text of a matching remote: the
\* string is in the list twice.
C1_Witness ==
    /\ ListReturned
    /\ Complete(branchOut)
    /\ \E n \in locals : Count(interesting.list, n) = 2

C3_RemotesFirstInOrder ==
    ListReturned =>
        LET L == TakenLocals
            R == TakenRemotes
            list == interesting.list
            k == Len(list) - Cardinality(L)
        IN  /\ k >= 0
            /\ SubSeq(list, 1, k) = SelectSeq(R, LAMBDA r : TracksOneOf(r, L))
            /\ \A i \in (k + 1)..Len(list) : list[i] \in L

\* Two different matched remotes and a local: the remotes are the first two
\* entries, in the order of the listing.
C3_Witness ==
    /\ ListReturned
    /\ Len(interesting.list) = 3
    /\ Len(remotes) = 2
    /\ remotes[1] # remotes[2]
    /\ interesting.list[1] = TextRemotes[1]
    /\ interesting.list[2] = TextRemotes[2]

(***************************************************************************)
(* C4.  As stated: when `git branch` exits with 128, whatever it wrote,    *)
(* interesting_branches yields Git128, the program prints nothing and      *)
(* exits unsuccessfully; when it exits with another unsuccessful status,   *)
(* the program panics with a message (here: any message).                  *)
(***************************************************************************)
C4_AsStated ==
    branchStatus # <<>> =>
        LET st == branchStatus[1]
        IN  /\ st = GIT_128 =>
                  /\ interesting.kind = "Git128"
                  /\ diag = <<>>
                  /\ exitCode # <<0>>
            /\ st \notin {0, GIT_128} =>
                  /\ pc = "panicked"
                  /\ diag # <<>>

(***************************************************************************)
(* C5.  As stated: when the three stages succeed, the exit code of the     *)
(* program is the exit status of `git log`.                                *)
(***************************************************************************)
C5_AsStated == pc = "exited" /\ logStatus # <<>> => exitCode = logStatus

(***************************************************************************)
(* C6.  As stated: for a listing of newline-terminated lines, when a line  *)
(* of the local or of the remote namespace carries a name that is not      *)
(* UTF-8, interesting_branches panics and returns no list.                 *)
(***************************************************************************)
C6_AsStated ==
    /\ ListerOver
    /\ Complete(branchOut)
    /\ \E n \in TextLocals \cup Range(TextRemotes) : ~from_utf8_ok(n)
    => pc = "panicked" /\ interesting.kind = "none"

(***************************************************************************)
(* C6, amended.  interesting_branches panics and returns no list when the  *)
(* name taken for a local branch, or for a remote branch that matches a    *)
(* local one, is not UTF-8, and panics with "non-utf-8 branch" in no other *)
(* case: a remote that matches no local branch is dropped unconverted.     *)
(***************************************************************************)
C6_Amended ==
    LET L == TakenLocals
        R == TakenRemotes
        bad == \/ \E n \in L : ~from_utf8_ok(n)
               \/ \E i \in DOMAIN R : TracksOneOf(R[i], L) /\ ~from_utf8_ok(R[i])
    IN  /\ pc \in {"ib_ret", "panicked"} /\ bad =>
              pc = "panicked" /\ interesting.kind = "none"
        /\ diag = NON_UTF8_BRANCH => bad

\* The panic on a remote that matches a local branch, the locals being UTF-8.
C6_Witness ==
    /\ pc = "panicked"
    /\ diag = NON_UTF8_BRANCH
    /\ locals # {}
    /\ \A l \in locals : from_utf8_ok(l)

(***************************************************************************)
(* C7.  As stated: when `git merge-base` prints no merge base, whatever    *)
(* status it exits with, merge_bases returns the empty list and the        *)
(* program goes on: no panic.                                              *)
(***************************************************************************)
C7_AsStated ==
    mbStatus # <<>> /\ mbOut = <<>> =>
        /\ pc \in {"mb_ret", "log", "exited"}
        /\ mergeBases = <<>>
        /\ diag = <<>>

(***************************************************************************)
(* C8.  As stated: the second run in the same repository returns the same  *)
(* list of interesting branches in the same order, passes the same         *)
(* arguments to `git merge-base` and returns the same merge bases.         *)
(***************************************************************************)
AfterSpawn == {"mb_loop", "mb_wait", "mb_ret", "log", "exited"}

AfterMergeBases == {"mb_ret", "log", "exited"}

SameUpToLast(l1, l2, n) ==
    /\ Len(l1) = Len(l2)
    /\ n <= Len(l1)
    /\ LET k == Len(l1) - n
       IN  /\ SubSeq(l1, 1, k) = SubSeq(l2, 1, k)
           /\ Range(SubSeq(l1, k + 1, Len(l1))) = Range(SubSeq(l2, k + 1, Len(l2)))

C9_BufferEmpty ==
    pc \in {"ib_loop", "ib_resolve", "ib_ret", "mb_loop", "mb_wait", "mb_ret"}
        => buffer = <<>>

\* merge_bases has returned after both children wrote lines, the last line
\* of `git merge-base` without a newline.
C9_Witness ==
    /\ pc = "mb_ret"
    /\ locals # {}
    /\ mbOut # <<>>
    /\ Last(mbOut) # NL
    /\ buffer = <<>>

(***************************************************************************)
(* C10.  As stated: what the two read loops keep of every line is the      *)
(* line without its newline (and without the namespace prefix), with or    *)
(* without a newline at the end of the last line, and no line makes the    *)
(* slicing fail; the merge bases are kept in the order printed.            *)
(***************************************************************************)
C10_AsStated ==
    /\ pc = "ib_resolve" => remotes = TextRemotes /\ locals = TextLocals
    /\ pc = "mb_wait" => mergeBases = TextLines(mbOut)
    /\ diag # UNWRAP_NONE

=============================================================================
